---- MODULE Spec2Model ----
(***************************************************************************)
(* Model of the data pipeline of the IQPwn plotting scripts:               *)
(*   plotcandkeys.py / benchmark/plotcandkeys.py                           *)
(*       read_data / read_cand_data, read_timing_data, bin_data,           *)
(*       plot_data / plot_hist                                             *)
(*   plottiming.py / benchmark/plottiming.py                               *)
(*       read_data, the power-law fit of plot_data                         *)
(* Text is a sequence of one-character strings.  A relative frequency is   *)
(* the fraction <<count, total>> that the division count/len(ary) is       *)
(* applied to.  The fit runs in IEEE-754 binary64, as Python floats do.    *)
(***************************************************************************)
EXTENDS Integers, Sequences, FiniteSets, TLC

VARIABLES
    nancast,   \* what the platform's float->int cast gives for NaN
    ary,       \* the argument of bin_data
    binres,    \* what bin_data(ary) did: a raised exception or (rtn, errs)
    file,      \* the lines of the input file being read
    variant,   \* which per-line parser is running
    lineno,    \* number of lines the per-line parser has consumed
    acc,       \* the parser's local lists ns, ts, iters, errlows, errhighs
    ret,       \* what the reader handed to its caller
    hist,      \* what plot_hist computed from (reg, hard)
    fit_ns,    \* the ns argument of the fit
    fit_ts,    \* the ts argument of the fit
    fitres     \* the fit's outcome: a raised exception or the coefficient c

vars == <<nancast, ary, binres, file, variant, lineno, acc, ret, hist,
          fit_ns, fit_ts, fitres>>

(***************************************************************************)
(* Bounds                                                                  *)
(***************************************************************************)
MaxLen == 3        \* longest array handed to bin_data
MaxVal == 5        \* largest sample value handed to bin_data

(***************************************************************************)
(* Generic helpers                                                         *)
(***************************************************************************)
RECURSIVE SeqsUpTo(_, _)
SeqsUpTo(S, n) ==
    IF n = 0 THEN {<<>>}
    ELSE LET shorter == SeqsUpTo(S, n - 1)
         IN  shorter \cup {Append(s, x) : s \in {t \in shorter : Len(t) = n - 1}, x \in S}

RECURSIVE SumSeq(_)
SumSeq(s) == IF s = <<>> THEN 0 ELSE s[1] + SumSeq(Tail(s))

RECURSIVE Pow2(_)
Pow2(e) == IF e = 0 THEN 1 ELSE 2 * Pow2(e - 1)

None == [status |-> "none"]

(***************************************************************************)
(* bin_data                                                                *)
(***************************************************************************)
\* int64 minimum, which the cast of -inf (and of NaN on x86) produces; kept
\* at TLC's integer width: all the code does with it is compare it,
\* add one to it and use it as an index.
INT_MIN == -2147483647 - 1

\* floor(log2(x)) for x >= 1
RECURSIVE FloorLog2(_)
FloorLog2(x) == IF x <= 1 THEN 0 ELSE 1 + FloorLog2(x \div 2)

\* np.log2(x).astype(int) for one element: log2(0) = -inf and log2(x<0) = NaN
\* are cast to int without an exception; the value of the NaN cast is the
\* platform's (nc).
Log2AsInt(x, nc) ==
    IF x > 0 THEN FloorLog2(x)
    ELSE IF x = 0 THEN INT_MIN
    ELSE nc

LogAry(a, nc) == [i \in 1..Len(a) |-> Log2AsInt(a[i], nc)]

\* np.unique(logary, return_counts=True): the sorted distinct values ...
RECURSIVE SortedSeq(_)
SortedSeq(S) ==
    IF S = {} THEN <<>>
    ELSE LET m == CHOOSE x \in S : \A y \in S : x <= y
         IN  <<m>> \o SortedSeq(S \ {m})

UniqueVals(logary) == SortedSeq({logary[i] : i \in DOMAIN logary})

\* ... and how often each occurs
UniqueCounts(logary, vals) ==
    [j \in 1..Len(vals) |-> Cardinality({i \in DOMAIN logary : logary[i] = vals[j]})]

\* the "make sure we didn't skip any values" branch: the dense count array,
\* or the exception raised on the way
DenseCountsNaive(vals, counts) ==
    IF Len(vals) = 0 THEN [status |-> "IndexError", rtn |-> <<>>]
    ELSE [status |-> "ok", rtn |-> counts]

DenseCountsGuarded(vals, counts) ==
    IF Len(vals) = 0 THEN [status |-> "ok", rtn |-> <<>>]
    ELSE LET m == vals[Len(vals)] + 1
         IN  IF Len(vals) # m
             THEN IF m < 0 THEN [status |-> "ValueError", rtn |-> <<>>]
                  ELSE IF \E j \in DOMAIN vals : vals[j] < -m \/ vals[j] >= m
                       THEN [status |-> "IndexError", rtn |-> <<>>]
                       ELSE [status |-> "ok",
                             rtn |-> [e \in 1..m |->
                                 LET hits == {j \in DOMAIN vals :
                                                (IF vals[j] < 0 THEN vals[j] + m ELSE vals[j]) = e - 1}
                                 IN  IF hits = {} THEN 0
                                     ELSE counts[CHOOSE j \in hits : \A h \in hits : h <= j]]]
             ELSE [status |-> "ok", rtn |-> counts]

DenseCounts(vals, counts) ==
    IF Len(vals) = 0
    THEN [status |-> "IndexError", rtn |-> <<>>]           \* vals[-1] of an empty array
    ELSE LET m == vals[Len(vals)] + 1
         IN  IF Len(vals) # m
             THEN IF m < 0
                  THEN [status |-> "ValueError", rtn |-> <<>>]   \* np.zeros(negative)
                  ELSE IF \E j \in DOMAIN vals : vals[j] < -m \/ vals[j] >= m
                       THEN [status |-> "IndexError", rtn |-> <<>>]  \* rtn[vals] out of bounds
                       ELSE [status |-> "ok",
                             rtn |-> [e \in 1..m |->
                                 LET hits == {j \in DOMAIN vals :
                                                (IF vals[j] < 0 THEN vals[j] + m ELSE vals[j]) = e - 1}
                                 IN  IF hits = {} THEN 0
                                     ELSE counts[CHOOSE j \in hits : \A h \in hits : h <= j]]]
             ELSE [status |-> "ok", rtn |-> counts]

\* rtn /= len(ary): each entry becomes the fraction <<count, len(ary)>>
NormalizeByBins(rtn, n) == [e \in DOMAIN rtn |-> <<rtn[e], Len(rtn)>>]

Normalize(rtn, n) == [e \in DOMAIN rtn |-> <<rtn[e], n>>]

\* errs = np.sqrt(rtn); errs /= len(ary): kept symbolic as sqrt(radicand)/over
Errs(rtn, n) == [e \in DOMAIN rtn |-> [radicand |-> rtn[e], over |-> n]]

bin_data(a, nc) ==
    LET logary == LogAry(a, nc)
        vals   == UniqueVals(logary)
        counts == UniqueCounts(logary, vals)
        dense  == DenseCounts(vals, counts)
    IN  IF dense.status # "ok"
        THEN [status |-> dense.status, rtn |-> <<>>, errs |-> <<>>]
        ELSE [status |-> "ok",
              rtn  |-> Normalize(dense.rtn, Len(a)),
              errs |-> Errs(dense.rtn, Len(a))]

InitBin ==
    /\ nancast \in {INT_MIN, 0}
    /\ ary \in SeqsUpTo(-1..MaxVal, MaxLen)
    /\ binres = None
    /\ file = <<>> /\ variant = "none" /\ lineno = 0 /\ acc = None /\ ret = None
    /\ hist = None /\ fit_ns = <<>> /\ fit_ts = <<>> /\ fitres = None

BinData ==
    /\ binres = None
    /\ binres' = bin_data(ary, nancast)
    /\ UNCHANGED <<nancast, ary, file, variant, lineno, acc, ret, hist, fit_ns, fit_ts, fitres>>

NextBin == BinData

SpecBin == InitBin /\ [][NextBin]_vars

AllPositive(a) == \A i \in DOMAIN a : a[i] > 0

\* the number of samples of a that fall in [2^e, 2^(e+1))
InRange(a, e) == Cardinality({i \in DOMAIN a : Pow2(e) <= a[i] /\ a[i] < Pow2(e + 1)})

\* the largest exponent e with 2^e <= x for some sample x
MaxExp(a) == CHOOSE e \in 0..MaxVal + 1 :
                /\ \E i \in DOMAIN a : Pow2(e) <= a[i]
                /\ \A i \in DOMAIN a : a[i] < Pow2(e + 1)

\* C1: for a non-empty array of positive integers bin_data returns a frequency
\* array of length E+1, E the largest floor(log2(x)), whose entry e is the
\* number of samples in [2^e, 2^(e+1)) divided by len(ary), gaps being 0.
C1_DenseBins ==
    (binres # None /\ ary # <<>> /\ AllPositive(ary)) =>
        /\ binres.status = "ok"
        /\ Len(binres.rtn) = MaxExp(ary) + 1
        /\ \A e \in 0..MaxExp(ary) : binres.rtn[e + 1] = <<InRange(ary, e), Len(ary)>>

\* a gap: two occupied bins with an empty one between them
C1_Witness ==
    /\ binres # None /\ ary # <<>> /\ AllPositive(ary)
    /\ binres.status = "ok"
    /\ \E e \in 1..Len(binres.rtn) : binres.rtn[e][1] = 0

\* C2: an array holding a non-positive value never gets a result from bin_data.
C2_NonPositiveFails ==
    (binres # None /\ ~AllPositive(ary)) => binres.status # "ok"

\* C6: the relative frequencies of a non-empty array of positive integers sum
\* to 1: the counts scattered into the dense array sum to len(ary).
C6_SumsToOne ==
    (binres # None /\ ary # <<>> /\ AllPositive(ary)) =>
        /\ binres.status = "ok"
        /\ \A e \in DOMAIN binres.rtn : binres.rtn[e][2] = Len(ary)
        /\ SumSeq([e \in DOMAIN binres.rtn |-> binres.rtn[e][1]]) = Len(ary)

\* both branches: a zero-filled result of three samples
C6_Witness ==
    /\ binres # None /\ AllPositive(ary) /\ Len(ary) = 3
    /\ binres.status = "ok"
    /\ Len(binres.rtn) = 3
    /\ binres.rtn[2][1] = 0

\* C9: bin_data of the empty array raises; it returns nothing and the
\* division by len(ary) = 0 is never reached.
C9_EmptyFails ==
    (binres # None /\ ary = <<>>) =>
        /\ binres.status \in {"IndexError", "ValueError"}
        /\ binres.rtn = <<>> /\ binres.errs = <<>>

C9_Witness == binres # None /\ ary = <<>> /\ binres.status = "IndexError"

(***************************************************************************)
(* Text: str.strip, str.split, int() and float()                           *)
(***************************************************************************)
MaxLines     == 3     \* longest timing file, in lines
MaxCandLines == 3     \* longest candidate-key file, in lines

Whitespace == {" ", "\n"}
Digits == {"0", "1", "2", "3", "4", "5", "6", "7", "8", "9"}

DigitVal(ch) ==
    CASE ch = "0" -> 0 [] ch = "1" -> 1 [] ch = "2" -> 2 [] ch = "3" -> 3
      [] ch = "4" -> 4 [] ch = "5" -> 5 [] ch = "6" -> 6 [] ch = "7" -> 7
      [] ch = "8" -> 8 [] ch = "9" -> 9

\* str.strip(): leading and trailing whitespace removed
RECURSIVE LStrip(_)
LStrip(s) == IF s # <<>> /\ s[1] \in Whitespace THEN LStrip(Tail(s)) ELSE s

RECURSIVE RStrip(_)
RStrip(s) ==
    IF s # <<>> /\ s[Len(s)] \in Whitespace THEN RStrip(SubSeq(s, 1, Len(s) - 1)) ELSE s

Strip(s) == RStrip(LStrip(s))

\* str.split(','): the pieces between the commas; '' gives ['']
RECURSIVE Split(_)
Split(s) ==
    IF \A i \in DOMAIN s : s[i] # ","
    THEN <<s>>
    ELSE LET p == CHOOSE i \in DOMAIN s : s[i] = "," /\ \A j \in 1..i - 1 : s[j] # ","
         IN  <<SubSeq(s, 1, p - 1)>> \o Split(SubSeq(s, p + 1, Len(s)))

RECURSIVE DigitsVal(_)
DigitsVal(s) ==
    IF s = <<>> THEN 0 ELSE 10 * DigitsVal(SubSeq(s, 1, Len(s) - 1)) + DigitVal(s[Len(s)])

RECURSIVE Pow10(_)
Pow10(e) == IF e = 0 THEN 1 ELSE 10 * Pow10(e - 1)

AllDigits(s) == \A i \in DOMAIN s : s[i] \in Digits

Unsigned(t) == IF t # <<>> /\ t[1] \in {"-", "+"} THEN Tail(t) ELSE t
Sign(t) == IF t # <<>> /\ t[1] = "-" THEN -1 ELSE 1

\* int(x): optional sign and at least one digit, else ValueError (ok = FALSE)
ParseInt(tok) ==
    LET t    == Strip(tok)
        body == Unsigned(t)
    IN  IF body # <<>> /\ AllDigits(body)
        THEN [ok |-> TRUE, val |-> Sign(t) * DigitsVal(body)]
        ELSE [ok |-> FALSE, val |-> 0]

\* float(x): optional sign, digits with at most one point and at least one
\* digit, else ValueError.  The value is the decimal num/den the text denotes
\* (which float() then rounds to the nearest binary64).
ParseFloat(tok) ==
    LET t    == Strip(tok)
        body == Unsigned(t)
        dots == {i \in DOMAIN body : body[i] = "."}
    IN  IF dots = {}
        THEN IF body # <<>> /\ AllDigits(body)
             THEN [ok |-> TRUE, num |-> Sign(t) * DigitsVal(body), den |-> 1]
             ELSE [ok |-> FALSE, num |-> 0, den |-> 1]
        ELSE LET p  == CHOOSE i \in dots : TRUE
                 ip == SubSeq(body, 1, p - 1)
                 fp == SubSeq(body, p + 1, Len(body))
             IN  IF Cardinality(dots) = 1 /\ AllDigits(ip) /\ AllDigits(fp) /\ Len(ip) + Len(fp) > 0
                 THEN [ok |-> TRUE, num |-> Sign(t) * DigitsVal(ip \o fp), den |-> Pow10(Len(fp))]
                 ELSE [ok |-> FALSE, num |-> 0, den |-> 1]

Num(f) == <<f.num, f.den>>

(***************************************************************************)
(* The per-line timing parsers                                             *)
(***************************************************************************)
\* plottiming.py read_data, loop body: what one line appends, or ValueError
read_data_body_lenient(line) ==
    LET fs == Split(Strip(line))
    IN  IF Len(fs) # 5 THEN [ok |-> FALSE]
        ELSE IF ~ParseInt(fs[1]).ok THEN [ok |-> FALSE]
        ELSE [ok |-> TRUE,
              ns       |-> (ParseInt(fs[1]).val + 1) \div 2,
              ts       |-> Num(ParseFloat(fs[2])),
              iters    |-> Num(ParseFloat(fs[5])),
              errlows  |-> Num(ParseFloat(fs[3])),
              errhighs |-> Num(ParseFloat(fs[4]))]

read_data_body(line) ==
    LET fs == Split(Strip(line))
    IN  IF Len(fs) # 5 THEN [ok |-> FALSE]
        ELSE IF ~ParseInt(fs[1]).ok THEN [ok |-> FALSE]
        ELSE IF ~ParseFloat(fs[2]).ok THEN [ok |-> FALSE]
        ELSE IF ~ParseFloat(fs[5]).ok THEN [ok |-> FALSE]
        ELSE IF ~ParseFloat(fs[3]).ok THEN [ok |-> FALSE]
        ELSE IF ~ParseFloat(fs[4]).ok THEN [ok |-> FALSE]
        ELSE [ok |-> TRUE,
              ns       |-> (ParseInt(fs[1]).val + 1) \div 2,
              ts       |-> Num(ParseFloat(fs[2])),
              iters    |-> Num(ParseFloat(fs[5])),
              errlows  |-> Num(ParseFloat(fs[3])),
              errhighs |-> Num(ParseFloat(fs[4]))]

\* benchmark/plottiming.py read_data, loop body: the fifth field is not converted
benchmark_read_data_body(line) ==
    LET fs == Split(Strip(line))
    IN  IF Len(fs) # 5 THEN [ok |-> FALSE]
        ELSE IF ~ParseInt(fs[1]).ok THEN [ok |-> FALSE]
        ELSE IF ~ParseFloat(fs[2]).ok THEN [ok |-> FALSE]
        ELSE IF ~ParseFloat(fs[3]).ok THEN [ok |-> FALSE]
        ELSE IF ~ParseFloat(fs[4]).ok THEN [ok |-> FALSE]
        ELSE [ok |-> TRUE,
              ns       |-> (ParseInt(fs[1]).val + 1) \div 2,
              ts       |-> Num(ParseFloat(fs[2])),
              errlows  |-> Num(ParseFloat(fs[3])),
              errhighs |-> Num(ParseFloat(fs[4]))]

\* benchmark/plotcandkeys.py read_timing_data, loop body: fields 2-4 are not converted
read_timing_data_body_halved(line) ==
    LET fs == Split(Strip(line))
    IN  IF Len(fs) # 5 THEN [ok |-> FALSE]
        ELSE IF ~ParseInt(fs[1]).ok THEN [ok |-> FALSE]
        ELSE IF ~ParseFloat(fs[5]).ok THEN [ok |-> FALSE]
        ELSE [ok |-> TRUE,
              ns       |-> ParseInt(fs[1]).val \div 2,
              candkeys |-> Num(ParseFloat(fs[5]))]

read_timing_data_body(line) ==
    LET fs == Split(Strip(line))
    IN  IF Len(fs) # 5 THEN [ok |-> FALSE]
        ELSE IF ~ParseInt(fs[1]).ok THEN [ok |-> FALSE]
        ELSE IF ~ParseFloat(fs[5]).ok THEN [ok |-> FALSE]
        ELSE [ok |-> TRUE,
              ns       |-> (ParseInt(fs[1]).val + 1) \div 2,
              candkeys |-> Num(ParseFloat(fs[5]))]

Variants == {"plottiming", "benchmark_plottiming", "read_timing_data"}

\* the lists each parser starts with
EmptyLists(v) ==
    CASE v = "plottiming" ->
            [ns |-> <<>>, ts |-> <<>>, iters |-> <<>>, errlows |-> <<>>, errhighs |-> <<>>]
      [] v = "benchmark_plottiming" ->
            [ns |-> <<>>, ts |-> <<>>, errlows |-> <<>>, errhighs |-> <<>>]
      [] v = "read_timing_data" ->
            [ns |-> <<>>, candkeys |-> <<>>]

\* the .append calls of one loop iteration
AppendAll(lists, r) == [k \in DOMAIN lists |-> Append(lists[k], r[k])]

\* one iteration of "for line in f": the line is consumed; its conversions
\* either append to every list or raise ValueError out of the reader
LoopStep(v, r) ==
    /\ variant = v
    /\ ret = None
    /\ lineno < Len(file)
    /\ lineno' = lineno + 1
    /\ IF r.ok
       THEN /\ acc' = AppendAll(acc, r)
            /\ ret' = ret
       ELSE /\ acc' = acc
            /\ ret' = [status |-> "ValueError", at |-> lineno + 1]
    /\ UNCHANGED <<nancast, ary, binres, file, variant, hist, fit_ns, fit_ts, fitres>>

read_data_line == LoopStep("plottiming", read_data_body(file[lineno + 1]))

benchmark_read_data_line == LoopStep("benchmark_plottiming", benchmark_read_data_body(file[lineno + 1]))

read_timing_data_line == LoopStep("read_timing_data", read_timing_data_body(file[lineno + 1]))

\* end of file: the lists are returned
ReturnLists ==
    /\ variant \in Variants
    /\ ret = None
    /\ lineno = Len(file)
    /\ ret' = [status |-> "ok", data |-> acc]
    /\ UNCHANGED <<nancast, ary, binres, file, variant, lineno, acc, hist, fit_ns, fit_ts, fitres>>

\* the file contents tried
RECURSIVE Join(_)
Join(fs) == IF Len(fs) = 1 THEN fs[1] ELSE fs[1] \o <<",">> \o Join(Tail(fs))

Text(fs) == Join(fs) \o <<"\n">>

TTok  == <<"1", ".", "2", "5">>
LoTok == <<"1", ".", "1">>
HiTok == <<"1", ".", "4">>
KTok  == <<"3", ".", "0">>

TimingLines ==
    {Text(<<<<"7">>, TTok, LoTok, HiTok, KTok>>),
     Text(<<<<"-", "4">>, TTok, LoTok, HiTok, KTok>>),
     Text(<<<<"q">>, TTok, LoTok, HiTok, KTok>>),
     Text(<<<<"7">>, <<"t">>, LoTok, HiTok, KTok>>),
     Text(<<<<"7">>, TTok, LoTok, HiTok, <<"k">>>>),
     Text(<<<<"7">>, TTok, LoTok, HiTok>>),
     Text(<<<<"7">>, TTok, LoTok, HiTok, KTok, KTok>>),
     <<"\n">>}

InitTiming ==
    /\ variant \in Variants
    /\ file \in SeqsUpTo(TimingLines, MaxLines)
    /\ lineno = 0
    /\ acc = EmptyLists(variant)
    /\ ret = None
    /\ nancast = 0 /\ ary = <<>> /\ binres = None
    /\ hist = None /\ fit_ns = <<>> /\ fit_ts = <<>> /\ fitres = None

NextTiming ==
    \/ read_data_line
    \/ benchmark_read_data_line
    \/ read_timing_data_line
    \/ ReturnLists

SpecTiming == InitTiming /\ [][NextTiming]_vars

Fields(line) == Split(Strip(line))

\* the positions each parser converts
Converted(v) ==
    CASE v = "plottiming" -> {1, 2, 3, 4, 5}
      [] v = "benchmark_plottiming" -> {1, 2, 3, 4}
      [] v = "read_timing_data" -> {1, 5}

NonNumeric(tok) == ~ParseFloat(tok).ok

\* a malformed line, as the claim has it
Malformed(line) ==
    \/ Len(Fields(line)) # 5
    \/ \E i \in 1..Len(Fields(line)) : NonNumeric(Fields(line)[i])

\* a line whose field count is wrong or that has non-numeric text where the
\* running parser converts
MalformedFor(v, line) ==
    \/ Len(Fields(line)) # 5
    \/ \E i \in Converted(v) : NonNumeric(Fields(line)[i])

\* C4 as stated: a file with a malformed line never yields sequences.
C4_AnyMalformedLineFails ==
    (ret # None /\ variant \in Variants /\ \E j \in DOMAIN file : Malformed(file[j])) =>
        ret.status = "ValueError"

\* C4, amended: a line whose field count is not 5, or with non-numeric text
\* in a field the parser converts, makes the parse fail at or before that
\* line: no later line is consumed and nothing is returned.
C4_MalformedLineFails ==
    /\ (ret # None /\ variant \in Variants
          /\ \E j \in DOMAIN file : MalformedFor(variant, file[j])) =>
            /\ ret.status = "ValueError"
            /\ \A j \in DOMAIN file : MalformedFor(variant, file[j]) => ret.at <= j
    /\ (variant \in Variants /\ ret # None /\ ret.status = "ValueError") =>
            /\ lineno = ret.at
            /\ DOMAIN ret = {"status", "at"}

\* a good line, then one with a non-numeric field, then one more line
C4_Witness ==
    /\ variant = "read_timing_data"
    /\ Len(file) = 3
    /\ ~MalformedFor(variant, file[1])
    /\ MalformedFor(variant, file[2])
    /\ Len(Fields(file[2])) = 5
    /\ ret # None /\ ret.status = "ValueError" /\ ret.at = 2
    /\ lineno = 2
    /\ Len(acc.ns) = 1

WellFormed(line) ==
    /\ Len(Fields(line)) = 5
    /\ ParseInt(Fields(line)[1]).ok
    /\ \A i \in 2..5 : ParseFloat(Fields(line)[i]).ok

FieldIs(x, line, i) == x = Num(ParseFloat(Fields(line)[i]))

HalfOf(n, line) ==
    LET q == ParseInt(Fields(line)[1]).val
    IN  2 * n <= q + 1 /\ q + 1 < 2 * n + 2

ExampleLine ==
    <<"7", ",", "1", ".", "2", "5", ",", "1", ".", "1", ",", "1", ".", "4", ",", "3", ".", "0", "\n">>

\* C7: for a well-formed timing file the lists returned are as long as the
\* file, and their i-th elements come from the i-th line: n = (q+1)//2
\* floored, t, errlow, errhigh and key the 2nd to 5th fields.
C7_ParallelLists ==
    (variant \in Variants /\ ret # None /\ \A j \in DOMAIN file : WellFormed(file[j])) =>
        /\ ret.status = "ok"
        /\ \A k \in DOMAIN ret.data : Len(ret.data[k]) = Len(file)
        /\ \A i \in DOMAIN file :
            /\ HalfOf(ret.data.ns[i], file[i])
            /\ variant = "read_timing_data" => FieldIs(ret.data.candkeys[i], file[i], 5)
            /\ variant # "read_timing_data" =>
                 /\ FieldIs(ret.data.ts[i], file[i], 2)
                 /\ FieldIs(ret.data.errlows[i], file[i], 3)
                 /\ FieldIs(ret.data.errhighs[i], file[i], 4)
            /\ variant = "plottiming" => FieldIs(ret.data.iters[i], file[i], 5)
            /\ (file[i] = ExampleLine /\ variant = "plottiming") =>
                 /\ ret.data.ns[i] = 4
                 /\ ret.data.ts[i] = <<125, 100>>
                 /\ ret.data.errlows[i] = <<11, 10>>
                 /\ ret.data.errhighs[i] = <<14, 10>>
                 /\ ret.data.iters[i] = <<30, 10>>
            /\ (file[i] = ExampleLine /\ variant = "read_timing_data") =>
                 /\ ret.data.ns[i] = 4
                 /\ ret.data.candkeys[i] = <<30, 10>>

\* the example line second, after a line with a negative q
C7_Witness ==
    /\ variant = "read_timing_data"
    /\ ret # None /\ ret.status = "ok"
    /\ Len(file) = 2
    /\ file[2] = ExampleLine
    /\ ret.data.ns = <<-2, 4>>
    /\ \A j \in DOMAIN file : WellFormed(file[j])

(***************************************************************************)
(* The two-line candidate-key reader and the histogram                     *)
(***************************************************************************)
\* f.readline(): the next line, or '' at end of file
ReadLine(f, i) == IF i <= Len(f) THEN f[i] ELSE <<>>

\* [int(x) for x in line.strip().split(',')]
IntList(line) ==
    LET fs == Split(Strip(line))
    IN  IF \E i \in DOMAIN fs : ~ParseInt(fs[i]).ok
        THEN [ok |-> FALSE, val |-> <<>>]
        ELSE [ok |-> TRUE, val |-> [i \in DOMAIN fs |-> ParseInt(fs[i]).val]]

\* read_data of plotcandkeys.py, read_cand_data of benchmark/plotcandkeys.py
read_cand_data ==
    /\ variant = "cand"
    /\ ret = None
    /\ LET reg  == IntList(ReadLine(file, 1))
           hard == IntList(ReadLine(file, 2))
       IN  ret' = IF ~reg.ok THEN [status |-> "ValueError", at |-> 1]
                  ELSE IF ~hard.ok THEN [status |-> "ValueError", at |-> 2]
                  ELSE [status |-> "ok", reg |-> reg.val, hard |-> hard.val]
    /\ UNCHANGED <<nancast, ary, binres, file, variant, lineno, acc, hist, fit_ns, fit_ts, fitres>>

\* plot_data of plotcandkeys.py, plot_hist of benchmark/plotcandkeys.py, up
\* to the data of the two bar series: both are drawn at idxs
plot_hist ==
    /\ variant = "cand"
    /\ ret # None /\ ret.status = "ok"
    /\ hist = None
    /\ LET r == bin_data(ret.reg, nancast)
           h == bin_data(ret.hard, nancast)
       IN  hist' = IF r.status # "ok" THEN [status |-> r.status]
                   ELSE IF h.status # "ok" THEN [status |-> h.status]
                   ELSE [status |-> "ok",
                         reg |-> r.rtn, regerr |-> r.errs,
                         hard |-> h.rtn, harderr |-> h.errs,
                         idxs |-> [i \in 1..Len(r.rtn) |-> i - 1]]
    /\ UNCHANGED <<nancast, ary, binres, file, variant, lineno, acc, ret, fit_ns, fit_ts, fitres>>

CandLines ==
    {Text(<<<<"1">>, <<"1">>, <<"2">>, <<"3">>>>),
     Text(<<<<"2">>, <<"3">>>>),
     Text(<<<<"1">>>>),
     Text(<<<<"1">>, <<"4">>>>),
     Text(<<<<"0">>, <<"2">>>>),
     Text(<<<<"-", "1">>>>),
     Text(<<<<"1">>, <<"x">>>>),
     <<"\n">>}

InitCand ==
    /\ variant = "cand"
    /\ nancast \in {INT_MIN, 0}
    /\ file \in SeqsUpTo(CandLines, MaxCandLines)
    /\ ret = None
    /\ hist = None
    /\ lineno = 0 /\ acc = None
    /\ ary = <<>> /\ binres = None
    /\ fit_ns = <<>> /\ fit_ts = <<>> /\ fitres = None

NextCand ==
    \/ read_cand_data
    \/ plot_hist

SpecCand == InitCand /\ [][NextCand]_vars

\* C5: the two sequences are returned only for a file of exactly two lines;
\* any other line count is a fatal input-format error.
C5_ExactlyTwoLines ==
    (variant = "cand" /\ ret # None /\ Len(file) # 2) => ret.status # "ok"

\* C10: for non-empty sequences of positive integers read from the file, the
\* bin arrays of 'all' and 'hard' have the same length, the length of idxs,
\* and index e of both counts the samples in [2^e, 2^(e+1)).
C10_BarsAligned ==
    (variant = "cand" /\ hist # None /\ AllPositive(ret.reg) /\ AllPositive(ret.hard)) =>
        /\ hist.status = "ok"
        /\ Len(hist.reg) = Len(hist.hard)
        /\ Len(hist.idxs) = Len(hist.hard)
        /\ \A e \in 1..Len(hist.reg) : hist.reg[e][1] = InRange(ret.reg, e - 1)
        /\ \A e \in 1..Len(hist.hard) : hist.hard[e][1] = InRange(ret.hard, e - 1)

(***************************************************************************)
(* Python float arithmetic (IEEE-754 binary64, round to nearest even).     *)
(* A natural number is a little-endian sequence of limbs below Base with   *)
(* no leading zero limb; a positive float is m * 2^e with m of exactly     *)
(* Precision bits, and 0.0 has m = <<>>.                                   *)
(***************************************************************************)
Precision == 53
LimbBits  == 13
Base      == Pow2(LimbBits)

RECURSIVE BNorm(_)
BNorm(a) == IF a # <<>> /\ a[Len(a)] = 0 THEN BNorm(SubSeq(a, 1, Len(a) - 1)) ELSE a

RECURSIVE BFromInt(_)
BFromInt(n) == IF n = 0 THEN <<>> ELSE <<n % Base>> \o BFromInt(n \div Base)

RECURSIVE BAddC(_, _, _)
BAddC(a, b, carry) ==
    IF a = <<>> /\ b = <<>> THEN (IF carry = 0 THEN <<>> ELSE <<carry>>)
    ELSE LET x == IF a = <<>> THEN 0 ELSE a[1]
             y == IF b = <<>> THEN 0 ELSE b[1]
             t == x + y + carry
         IN  <<t % Base>> \o BAddC(IF a = <<>> THEN a ELSE Tail(a),
                                   IF b = <<>> THEN b ELSE Tail(b), t \div Base)

BAdd(a, b) == BAddC(a, b, 0)

\* a - b for a >= b
RECURSIVE BSubC(_, _, _)
BSubC(a, b, borrow) ==
    IF a = <<>> THEN <<>>
    ELSE LET y == IF b = <<>> THEN 0 ELSE b[1]
             t == a[1] - y - borrow
         IN  <<t % Base>> \o BSubC(Tail(a), IF b = <<>> THEN b ELSE Tail(b),
                                   IF t < 0 THEN 1 ELSE 0)

BSub(a, b) == BNorm(BSubC(a, b, 0))

\* a <= b
RECURSIVE BLeq(_, _)
BLeq(a, b) ==
    IF Len(a) # Len(b) THEN Len(a) < Len(b)
    ELSE IF a = <<>> THEN TRUE
    ELSE IF a[Len(a)] # b[Len(b)] THEN a[Len(a)] < b[Len(b)]
    ELSE BLeq(SubSeq(a, 1, Len(a) - 1), SubSeq(b, 1, Len(b) - 1))

\* a * k for a small k
RECURSIVE BMulSmallC(_, _, _)
BMulSmallC(a, k, carry) ==
    IF a = <<>> THEN BFromInt(carry)
    ELSE LET t == a[1] * k + carry
         IN  <<t % Base>> \o BMulSmallC(Tail(a), k, t \div Base)

BMulSmall(a, k) == BNorm(BMulSmallC(a, k, 0))

\* a divided by a small d: quotient and remainder
RECURSIVE BDivSmallR(_, _, _)
BDivSmallR(a, d, r) ==
    IF a = <<>> THEN [q |-> <<>>, r |-> r]
    ELSE LET t    == r * Base + a[Len(a)]
             rest == BDivSmallR(SubSeq(a, 1, Len(a) - 1), d, t % d)
         IN  [q |-> Append(rest.q, t \div d), r |-> rest.r]

BDivSmall(a, d) ==
    LET x == BDivSmallR(a, d, 0) IN [q |-> BNorm(x.q), r |-> x.r]

RECURSIVE BitLenSmall(_)
BitLenSmall(n) == IF n = 0 THEN 0 ELSE 1 + BitLenSmall(n \div 2)

BBitLen(a) == IF a = <<>> THEN 0 ELSE LimbBits * (Len(a) - 1) + BitLenSmall(a[Len(a)])

BOdd(a) == a # <<>> /\ a[1] % 2 = 1

\* a * 2^s
RECURSIVE BShl(_, _)
BShl(a, s) ==
    IF a = <<>> \/ s = 0 THEN a
    ELSE IF s >= LimbBits THEN BShl(<<0>> \o a, s - LimbBits)
    ELSE BMulSmall(a, Pow2(s))

\* floor(a / 2^s), and whether any of the bits shifted out was set
RECURSIVE BShr(_, _)
BShr(a, s) ==
    IF a = <<>> \/ s = 0 THEN [q |-> a, sticky |-> FALSE]
    ELSE IF s >= LimbBits
         THEN LET rest == BShr(Tail(a), s - LimbBits)
              IN  [q |-> rest.q, sticky |-> rest.sticky \/ a[1] # 0]
         ELSE LET x == BDivSmall(a, Pow2(s))
              IN  [q |-> x.q, sticky |-> x.r # 0]

FZero == [m |-> <<>>, e |-> 0]

\* the binary64 nearest to M * 2^e, ties to even
Round(M, e) ==
    LET L == BBitLen(M)
    IN  IF L = 0 THEN FZero
        ELSE IF L <= Precision
        THEN [m |-> BShl(M, Precision - L), e |-> e - (Precision - L)]
        ELSE LET sh == L - Precision
                 h  == BShr(M, sh - 1)
                 q  == BShr(h.q, 1).q
                 up == BOdd(h.q) /\ (h.sticky \/ BOdd(q))
                 q1 == IF up THEN BAdd(q, <<1>>) ELSE q
             IN  IF BBitLen(q1) > Precision
                 THEN [m |-> BShr(q1, 1).q, e |-> e + sh + 1]
                 ELSE [m |-> q1, e |-> e + sh]

\* float(n) for a small non-negative int
FromInt(n) == Round(BFromInt(n), 0)

\* x * n for a float x and a small positive int n
FMulInt(x, n) == Round(BMulSmall(x.m, n), x.e)

\* x / d for a float x and a small positive int d: the quotient is taken
\* with 2 * LimbBits extra bits and a sticky bit, then rounded once
FDivInt(x, d) ==
    LET y == BDivSmall(BShl(x.m, 2 * LimbBits), d)
    IN  Round(BAdd(BShl(y.q, 1), IF y.r # 0 THEN <<1>> ELSE <<>>), x.e - 2 * LimbBits - 1)

\* x + y for non-negative floats
FAdd(x, y) ==
    IF x.m = <<>> THEN y
    ELSE IF y.m = <<>> THEN x
    ELSE LET e0 == IF x.e < y.e THEN x.e ELSE y.e
         IN  Round(BAdd(BShl(x.m, x.e - e0), BShl(y.m, y.e - e0)), e0)

(***************************************************************************)
(* The power-law fit of plot_data                                          *)
(***************************************************************************)
MaxFit == 3       \* longest ns or ts handed to the fit
MaxN   == 2       \* largest problem size handed to the fit

Min(a, b) == IF a < b THEN a ELSE b

\* sum(t/(n**2) for t,n in zip(ts, ns)): zip stops at the shorter list; the
\* sum starts from 0 and adds left to right, rounding after each addition;
\* n = 0 raises ZeroDivisionError
RECURSIVE FitSum(_, _, _, _)
FitSum(ts, ns, i, s) ==
    IF i > Min(Len(ts), Len(ns)) THEN [status |-> "ok", sum |-> s]
    ELSE IF ns[i] * ns[i] = 0 THEN [status |-> "ZeroDivisionError", sum |-> s]
    ELSE FitSum(ts, ns, i + 1, FAdd(s, FDivInt(ts[i], ns[i] * ns[i])))

\* c = sum(t/(n**2) for t,n in zip(ts, ns)) / len(ns)
FitOverN(ts, ns) ==
    LET RECURSIVE S(_, _)
        S(i, s) == IF i > Min(Len(ts), Len(ns)) THEN [status |-> "ok", sum |-> s]
                   ELSE IF ns[i] = 0 THEN [status |-> "ZeroDivisionError", sum |-> s]
                   ELSE S(i + 1, FAdd(s, FDivInt(ts[i], ns[i])))
        s == S(1, FZero)
    IN  IF s.status # "ok" THEN [status |-> s.status]
        ELSE IF Len(ns) = 0 THEN [status |-> "ZeroDivisionError"]
        ELSE [status |-> "ok", c |-> FDivInt(s.sum, Len(ns))]

Fit(ts, ns) ==
    LET s == FitSum(ts, ns, 1, FZero)
    IN  IF s.status # "ok" THEN [status |-> s.status]
        ELSE IF Len(ns) = 0 THEN [status |-> "ZeroDivisionError"]
        ELSE [status |-> "ok", c |-> FDivInt(s.sum, Len(ns))]

\* the scalars k tried: 0.1 and 1.25
Ks == {FDivInt(FromInt(1), 10), FDivInt(FromInt(5), 4)}

\* [k*n**2 for n in ns]
Proportional(k, ns) == [i \in DOMAIN ns |-> FMulInt(k, ns[i] * ns[i])]

InitFit ==
    /\ fit_ns \in SeqsUpTo(0..MaxN, MaxFit)
    /\ \E k \in Ks : \E ms \in SeqsUpTo(1..MaxN, MaxFit) : fit_ts = Proportional(k, ms)
    /\ fitres = None
    /\ nancast = 0 /\ ary = <<>> /\ binres = None
    /\ file = <<>> /\ variant = "none" /\ lineno = 0 /\ acc = None /\ ret = None
    /\ hist = None

FitStep ==
    /\ fitres = None
    /\ fitres' = Fit(fit_ts, fit_ns)
    /\ UNCHANGED <<nancast, ary, binres, file, variant, lineno, acc, ret, hist, fit_ns, fit_ts>>

NextFit == FitStep

SpecFit == InitFit /\ [][NextFit]_vars

ExactlyProportional(k) ==
    /\ fit_ns # <<>>
    /\ \A i \in DOMAIN fit_ns : fit_ns[i] > 0
    /\ fit_ts = Proportional(k, fit_ns)

\* C8 as stated: the coefficient fitted to t_i = k * n_i^2 equals k.
C8_RecoversK ==
    \A k \in Ks : (fitres # None /\ ExactlyProportional(k)) =>
        (fitres.status = "ok" /\ fitres.c = k)

\* |x - y| * 2^(Precision-1) <= ulps * y
Within(x, y, ulps) ==
    LET e0 == Min(x.e, y.e)
        X  == BShl(x.m, x.e - e0)
        Y  == BShl(y.m, y.e - e0)
        D  == IF BLeq(X, Y) THEN BSub(Y, X) ELSE BSub(X, Y)
    IN  BLeq(BShl(D, Precision - 1), BMulSmall(Y, ulps))

\* C8, amended: the coefficient fitted to t_i = k * n_i^2 equals k up to
\* binary64 rounding: |c - k| <= (len(n) + 2) * 2^-52 * k.
C8_RecoversKRounded ==
    \A k \in Ks : (fitres # None /\ ExactlyProportional(k)) =>
        (fitres.status = "ok" /\ Within(fitres.c, k, Len(fit_ns) + 2))

\* three samples of different sizes, and a coefficient that is not k
C8_Witness ==
    \E k \in Ks :
        /\ fitres # None /\ ExactlyProportional(k)
        /\ Len(fit_ns) = 3
        /\ fitres.status = "ok"
        /\ fitres.c # k
        /\ Within(fitres.c, k, 5)

====
